---- MODULE Spec2Model ----
(***************************************************************************)
(* State-machine model of review-cli (src/code_review/__init__.py):        *)
(* the StepTracker, the arrow-key selector select_with_arrows, the file    *)
(* writer create_file and the init command that drives them.               *)
(*                                                                         *)
(* Four specifications share the variables:                                *)
(*   Spec            a run of the init command                             *)
(*   SpecTracker     any sequence of calls on one StepTracker              *)
(*   SpecSelector    one call of select_with_arrows                        *)
(*   SpecCreateFile  one call of create_file                               *)
(***************************************************************************)
EXTENDS Integers, Sequences, FiniteSets, TLC

VARIABLES
    \* StepTracker
    steps,          \* self.steps: sequence of step records
    refresh_cb,     \* self._refresh_cb: "none" or "set"
    cb_seen,        \* history: the step sequences the callback saw in the last call
    call,           \* history: the last tracker call, its arguments and its outcome
    pre,            \* history: self.steps when the last tracker call began
    \* select_with_arrows
    option_keys,    \* list(options.keys())
    default_key,    \* the default_key argument ("None" when absent)
    selected_index,
    selected_key,
    sel_pc,         \* "idle", "loop", "returned", "exit"
    last_key,       \* history: what get_key gave on the last read
    n_up,           \* history: the "up" keys read in this call
    n_down,         \* history: the "down" keys read in this call
    \* create_file
    cf,             \* the arguments of the running call
    cf_pc,          \* "idle", then "start" .. "complete" or "except", then "returned" or "raised"
    cf_err,         \* str(e) of the failure being handled ("" when none)
    \* file system below root_path
    dirs,           \* set of directory paths (sequences of components)
    files,          \* function: file path -> [content, mode]
    io_log,         \* history: the file-system calls made, in order
    \* init
    pc,
    ai,             \* --ai ("None" when the flag is absent)
    script_type,    \* --script ("None" when the flag is absent)
    isatty,         \* sys.stdin.isatty()
    host,           \* the host operating system
    selected_ai,
    selected_script,
    sel_log,        \* history: the prompts select_with_arrows was called for
    summary,        \* whether the final summary was printed
    exit_code       \* -1 while the process runs, then its exit status

trackerVars == <<steps, refresh_cb, cb_seen, call, pre>>
selectorVars == <<option_keys, default_key, selected_index, selected_key, sel_pc, last_key, n_up, n_down>>
cfVars == <<cf, cf_pc, cf_err>>
fsVars == <<dirs, files, io_log>>
initVars == <<pc, ai, script_type, isatty, host, selected_ai, selected_script, sel_log, summary, exit_code>>
vars == <<trackerVars, selectorVars, cfVars, fsVars, initVars>>

None == "None"

(***************************************************************************)
(* Bounds of the model.                                                    *)
(***************************************************************************)
\* how many different non-empty details the callers of a bare StepTracker give
NumDetails == 2
\* the longest option set given to a bare select_with_arrows
MaxOptions == 3
\* the longest content given to a bare create_file
MaxContent == 2
\* how many arrow keys one call of select_with_arrows reads
MaxPresses == 3

(***************************************************************************)
(* StepTracker                                                             *)
(***************************************************************************)
\* the keys, labels and details the callers of a bare StepTracker give
Keys == {"dirs", "script"}
Labels == {"Criar estrutura"}
DetailPool == <<"pronto", "criado", "criado & chmod +x", "[Errno 13] Permission denied">>
Details == {""} \cup {DetailPool[i] : i \in 1..NumDetails}
Statuses == {"pending", "running", "done", "error"}

NewStep(key, label, status, detail) ==
    [key |-> key, label |-> label, status |-> status, detail |-> detail]

StepKeys(s) == [i \in 1..Len(s) |-> s[i].key]

HasKey(s, key) == \E i \in 1..Len(s) : s[i].key = key

\* for s in self.steps: if s["key"] == key  -- the first match
FirstIndex(s, key) ==
    CHOOSE i \in 1..Len(s) : s[i].key = key /\ \A j \in 1..(i - 1) : s[j].key # key

\* a faulty variant of add: the new step goes first
add_in_front(s, key, label) ==
    IF ~HasKey(s, key)
    THEN <<NewStep(key, label, "pending", "")>> \o s
    ELSE s

\* a faulty variant of add: no test for the key
add_twice(s, key, label) == Append(s, NewStep(key, label, "pending", ""))

add(s, key, label) ==
    IF ~HasKey(s, key)
    THEN Append(s, NewStep(key, label, "pending", ""))
    ELSE s

\* a faulty variant of _update: the detail is always overwritten
update_overwrites_detail(s, key, status, detail) ==
    IF HasKey(s, key)
    THEN [s EXCEPT ![FirstIndex(s, key)] = [@ EXCEPT !.status = status, !.detail = detail]]
    ELSE Append(s, NewStep(key, key, status, detail))

\* a faulty variant of _update: a missing key is not appended
update_raises(s, key, status, detail) ==
    IF HasKey(s, key)
    THEN [s EXCEPT ![FirstIndex(s, key)] =
            [@ EXCEPT !.status = status,
                      !.detail = IF detail # "" THEN detail ELSE @]]
    ELSE s

_update(s, key, status, detail) ==
    IF HasKey(s, key)
    THEN [s EXCEPT ![FirstIndex(s, key)] =
            [@ EXCEPT !.status = status,
                      !.detail = IF detail # "" THEN detail ELSE @]]
    ELSE Append(s, NewStep(key, key, status, detail))

start(s, key, detail) == _update(s, key, "running", detail)

complete(s, key, detail) == _update(s, key, "done", detail)

error(s, key, detail) == _update(s, key, "error", detail)

\* whether the call reaches self._maybe_refresh(): add only when it appends
ReachesRefresh(s, op, key) == op # "add" \/ ~HasKey(s, key)

\* a faulty variant of _maybe_refresh: the callback runs twice
refresh_twice(cb, reached, s) == IF cb # "none" /\ reached THEN <<s, s>> ELSE <<>>

\* the callback runs only when one is attached; what it raises is dropped
_maybe_refresh(cb, reached, s) == IF cb # "none" /\ reached THEN <<s>> ELSE <<>>

\* a faulty variant of refresh_raises: what the callback raises escapes
refresh_propagates(cb, reached, fault) == cb # "none" /\ reached /\ fault

\* whether _maybe_refresh raises to its caller: "except Exception: pass"
refresh_raises(cb, reached, fault) == FALSE

TrackerResult(s, op, key, label, detail) ==
    CASE op = "add" -> add(s, key, label)
      [] op = "start" -> start(s, key, detail)
      [] op = "complete" -> complete(s, key, detail)
      [] op = "error" -> error(s, key, detail)

NoCall ==
    [op |-> None, key |-> "", label |-> "", detail |-> "",
     attached |-> FALSE, cb_fault |-> FALSE, raised |-> FALSE]

\* one call of a StepTracker method, with the history of the call; the
\* callback, when it runs, may raise an Exception (fault)
TrackerCall(op, key, label, detail) ==
    \E fault \in BOOLEAN :
        LET reached == ReachesRefresh(steps, op, key)
            ran == _maybe_refresh(refresh_cb, reached, steps') # <<>>
        IN  /\ pre' = steps
            /\ steps' = TrackerResult(steps, op, key, label, detail)
            /\ cb_seen' = _maybe_refresh(refresh_cb, reached, steps')
            /\ call' = [op |-> op, key |-> key, label |-> label, detail |-> detail,
                        attached |-> refresh_cb # "none",
                        cb_fault |-> ran /\ fault,
                        raised |-> refresh_raises(refresh_cb, reached, ran /\ fault)]
            /\ UNCHANGED refresh_cb

attach_refresh ==
    /\ refresh_cb' = "set"
    /\ UNCHANGED <<steps, cb_seen, call, pre>>

TrackerInit ==
    /\ steps = <<>>
    /\ refresh_cb = "none"
    /\ cb_seen = <<>>
    /\ call = NoCall
    /\ pre = <<>>

(***************************************************************************)
(* get_key and select_with_arrows                                          *)
(***************************************************************************)
\* what readchar.readkey() can give: the named keys and a printable one
RawKeys == {"UP", "CTRL_P", "DOWN", "CTRL_N", "ENTER", "ESC", "CTRL_C", "x"}

KeyboardInterrupt == "KeyboardInterrupt"

\* the value get_key returns, or KeyboardInterrupt when it raises
get_key(raw) ==
    CASE raw = "UP" \/ raw = "CTRL_P" -> "up"
      [] raw = "DOWN" \/ raw = "CTRL_N" -> "down"
      [] raw = "ENTER" -> "enter"
      [] raw = "ESC" -> "escape"
      [] raw = "CTRL_C" -> KeyboardInterrupt
      [] OTHER -> raw

Range(f) == {f[i] : i \in DOMAIN f}

\* option_keys.index(default_key), zero-based
IndexOf(seq, x) == (CHOOSE i \in 1..Len(seq) : seq[i] = x /\ \A j \in 1..(i - 1) : seq[j] # x) - 1

\* "if default_key and default_key in option_keys": None and "" are falsy
initial_index(keys, dflt) ==
    IF dflt # None /\ dflt # "" /\ dflt \in Range(keys)
    THEN IndexOf(keys, dflt)
    ELSE 0

\* a faulty variant of move_up: stops at the first option
move_up_clamped(i, n) == IF i = 0 THEN 0 ELSE i - 1

move_up(i, n) == (i - 1) % n

\* a faulty variant of move_down: no wrap
move_down_unwrapped(i, n) == i + 1

move_down(i, n) == (i + 1) % n

\* entry of select_with_arrows(options, prompt_text, default_key)
select_with_arrows(keys, dflt) ==
    /\ option_keys' = keys
    /\ default_key' = dflt
    /\ selected_index' = initial_index(keys, dflt)
    /\ selected_key' = None
    /\ last_key' = None
    /\ n_up' = 0
    /\ n_down' = 0
    /\ sel_pc' = "loop"

\* a faulty variant of cancel: returns the highlighted key
escape_returns(key) ==
    /\ selected_key' = option_keys[selected_index + 1]
    /\ sel_pc' = "returned"
    /\ UNCHANGED <<selected_index, exit_code>>

\* "raise typer.Exit(1)" on escape and in the KeyboardInterrupt handler:
\* nothing in select_with_arrows or init catches it
cancel(key) ==
    /\ sel_pc' = "exit"
    /\ exit_code' = 1
    /\ UNCHANGED <<selected_index, selected_key>>

\* one turn of the "while True" loop: read a key and act on it
SelectLoop ==
    /\ sel_pc = "loop"
    /\ exit_code = -1
    /\ \E raw \in RawKeys :
         LET key == get_key(raw) IN
         /\ key \in {"up", "down"} => n_up + n_down < MaxPresses
         /\ last_key' = key
         /\ n_up' = IF key = "up" THEN n_up + 1 ELSE n_up
         /\ n_down' = IF key = "down" THEN n_down + 1 ELSE n_down
         /\ IF key = "up" THEN
                /\ selected_index' = move_up(selected_index, Len(option_keys))
                /\ UNCHANGED <<selected_key, sel_pc, exit_code>>
            ELSE IF key = "down" THEN
                /\ selected_index' = move_down(selected_index, Len(option_keys))
                /\ UNCHANGED <<selected_key, sel_pc, exit_code>>
            ELSE IF key = "enter" THEN
                /\ selected_key' = option_keys[selected_index + 1]
                /\ sel_pc' = "returned"
                /\ UNCHANGED <<selected_index, exit_code>>
            ELSE IF key = "escape" \/ key = KeyboardInterrupt THEN
                cancel(key)
            ELSE
                UNCHANGED <<selected_index, selected_key, sel_pc, exit_code>>
    /\ UNCHANGED <<option_keys, default_key>>
    /\ UNCHANGED <<trackerVars, cfVars, fsVars>>
    /\ UNCHANGED <<pc, ai, script_type, isatty, host, selected_ai, selected_script, sel_log, summary>>

SelectorIdle ==
    /\ option_keys = <<>>
    /\ default_key = None
    /\ selected_index = 0
    /\ selected_key = None
    /\ last_key = None
    /\ n_up = 0
    /\ n_down = 0
    /\ sel_pc = "idle"

(***************************************************************************)
(* The file system below root_path.  A path is the sequence of its         *)
(* components; a text is the sequence of its characters; a mode is the     *)
(* nine permission bits as a number.                                       *)
(***************************************************************************)
Prefixes(p) == {SubSeq(p, 1, k) : k \in 1..Len(p)}

Parent(p) == SubSeq(p, 1, Len(p) - 1)

\* the failures the operating system reports on its own account
OSErrors == {"[Errno 13] Permission denied", "[Errno 28] No space left on device"}

\* 0o111
ExecBits == 73

RECURSIVE BitOr(_, _)
BitOr(a, b) ==
    IF a = 0 THEN b
    ELSE IF b = 0 THEN a
    ELSE (IF a % 2 = 1 \/ b % 2 = 1 THEN 1 ELSE 0) + 2 * BitOr(a \div 2, b \div 2)

\* the mode open() gives a file it creates: 0o666 less the umask 0o022 or 0o077
NewFileModes == {420, 384}

\* a component of d that is a file stops mkdir
Blocked(fs, d) == \E q \in Prefixes(d) : q \in DOMAIN fs

\* Path.mkdir(parents=True, exist_ok=True): the outcomes [ok, dirs, err];
\* a call that fails may have made some of the leading directories
mkdir(ds, fs, d) ==
    {[ok |-> TRUE, dirs |-> ds \cup Prefixes(d), err |-> ""] : x \in IF Blocked(fs, d) THEN {} ELSE {1}}
    \cup
    {[ok |-> FALSE, dirs |-> ds \cup {SubSeq(d, 1, k) : k \in 1..j}, err |-> e] :
        j \in {i \in 0..(Len(d) - 1) : ~Blocked(fs, SubSeq(d, 1, i))},
        e \in IF Blocked(fs, d) THEN {"[Errno 17] File exists"} ELSE OSErrors}

PutFile(fs, path, text, mode) ==
    [p \in DOMAIN fs \cup {path} |->
        IF p = path THEN [content |-> text, mode |-> mode] ELSE fs[p]]

\* the modes the file at path can have once open(path, 'w') has succeeded
ModesAfterOpen(fs, path) == IF path \in DOMAIN fs THEN {fs[path].mode} ELSE NewFileModes

\* open(path, 'w', encoding='utf-8', newline='\n') and f.write(text): the
\* outcomes [ok, files, err].  newline='\n' writes every character as it is.
\* open can fail and leave the files alone; the write can fail after open
\* has truncated the file, and leave a part of the text.
open_write(ds, fs, path, text) ==
    IF path \in ds
    THEN {[ok |-> FALSE, files |-> fs, err |-> "[Errno 21] Is a directory"]}
    ELSE {[ok |-> TRUE, files |-> PutFile(fs, path, text, m), err |-> ""] :
              m \in ModesAfterOpen(fs, path)}
         \cup
         {[ok |-> FALSE, files |-> fs, err |-> "[Errno 13] Permission denied"]}
         \cup
         {[ok |-> FALSE, files |-> PutFile(fs, path, SubSeq(text, 1, k), m),
           err |-> "[Errno 28] No space left on device"] :
              k \in 0..(Len(text) - 1), m \in ModesAfterOpen(fs, path)}

\* a faulty variant of stat_chmod: sets the mode to the execute bits alone
chmod_replaces_mode(fs, path) ==
    {[ok |-> TRUE, files |-> PutFile(fs, path, fs[path].content, ExecBits), err |-> ""],
     [ok |-> FALSE, files |-> fs, err |-> "[Errno 1] Operation not permitted"]}

\* st = os.stat(path); os.chmod(path, st.st_mode | 0o111)
stat_chmod(fs, path) ==
    {[ok |-> TRUE, files |-> PutFile(fs, path, fs[path].content, BitOr(fs[path].mode, ExecBits)),
      err |-> ""],
     [ok |-> FALSE, files |-> fs, err |-> "[Errno 1] Operation not permitted"]}

IoEntry(op, path, ok) == [op |-> op, path |-> path, ok |-> ok]

(***************************************************************************)
(* Host                                                                    *)
(***************************************************************************)
Hosts == {"Linux", "Windows"}

\* platform.system()
platform_system(h) == h

\* os.name
os_name(h) == IF h = "Windows" THEN "nt" ELSE "posix"

(***************************************************************************)
(* create_file                                                             *)
(***************************************************************************)
\* a faulty variant of replace_crlf: writes the text as given
replace_nothing(text) == text

\* content.replace('\r\n', '\n')
RECURSIVE replace_crlf(_)
replace_crlf(text) ==
    IF text = <<>> THEN <<>>
    ELSE IF Len(text) >= 2 /\ text[1] = "\r" /\ text[2] = "\n"
         THEN <<"\n">> \o replace_crlf(SubSeq(text, 3, Len(text)))
         ELSE <<text[1]>> \o replace_crlf(Tail(text))

NoFrame == [path |-> <<>>, content |-> <<>>, step_key |-> "", make_executable |-> FALSE]

\* entry of create_file(path, content, tracker, step_key, make_executable)
create_file(path, content, step_key, make_executable) ==
    /\ cf' = [path |-> path, content |-> content, step_key |-> step_key,
              make_executable |-> make_executable]
    /\ cf_pc' = "start"
    /\ cf_err' = ""

cfFrame == <<selectorVars, initVars>>

\* tracker.start(step_key)
CreateFileStart ==
    /\ cf_pc = "start"
    /\ TrackerCall("start", cf.step_key, "", "")
    /\ cf_pc' = "mkdir"
    /\ UNCHANGED <<cf, cf_err, fsVars, cfFrame>>

\* path.parent.mkdir(parents=True, exist_ok=True)
CreateFileMkdir ==
    /\ cf_pc = "mkdir"
    /\ \E r \in mkdir(dirs, files, Parent(cf.path)) :
         /\ dirs' = r.dirs
         /\ io_log' = Append(io_log, IoEntry("mkdir", Parent(cf.path), r.ok))
         /\ cf_err' = r.err
         /\ cf_pc' = IF r.ok THEN "write" ELSE "except"
    /\ UNCHANGED <<cf, files, trackerVars, cfFrame>>

\* a faulty variant of wants_chmod: no test of os.name
wants_chmod_everywhere(make_executable, h) == make_executable

\* whether the chmod branch is taken
wants_chmod(make_executable, h) == make_executable /\ os_name(h) # "nt"

\* content = content.replace(...); with open(...) as f: f.write(content)
CreateFileWrite ==
    /\ cf_pc = "write"
    /\ \E r \in open_write(dirs, files, cf.path, replace_crlf(cf.content)) :
         /\ files' = r.files
         /\ io_log' = Append(io_log, IoEntry("write", cf.path, r.ok))
         /\ cf_err' = r.err
         /\ cf_pc' = IF ~r.ok THEN "except"
                     ELSE IF wants_chmod(cf.make_executable, host) THEN "chmod"
                     ELSE "complete"
    /\ UNCHANGED <<cf, dirs, trackerVars, cfFrame>>

\* st = os.stat(path); os.chmod(path, st.st_mode | 0o111)
CreateFileChmod ==
    /\ cf_pc = "chmod"
    /\ \E r \in stat_chmod(files, cf.path) :
         /\ files' = r.files
         /\ io_log' = Append(io_log, IoEntry("chmod", cf.path, r.ok))
         /\ cf_err' = r.err
         /\ cf_pc' = IF r.ok THEN "complete_x" ELSE "except"
    /\ UNCHANGED <<cf, dirs, trackerVars, cfFrame>>

\* a faulty variant of complete_detail: one detail for both
complete_detail_fixed(executable) == "criado"

\* the detail of the two tracker.complete calls
complete_detail(executable) == IF executable THEN "criado & chmod +x" ELSE "criado"

\* tracker.complete(step_key, ...), then the normal return
CreateFileComplete ==
    /\ cf_pc \in {"complete", "complete_x"}
    /\ TrackerCall("complete", cf.step_key, "", complete_detail(cf_pc = "complete_x"))
    /\ cf_pc' = "returned"
    /\ UNCHANGED <<cf, cf_err, fsVars, cfFrame>>

\* a faulty variant of except_handler: the tracker is not told
except_status_kept(key, detail) == UNCHANGED trackerVars

\* except Exception as e: tracker.error(step_key, str(e)) ...
except_handler(key, detail) == TrackerCall("error", key, "", detail)

\* ... raise e
CreateFileExcept ==
    /\ cf_pc = "except"
    /\ except_handler(cf.step_key, cf_err)
    /\ cf_pc' = "raised"
    /\ UNCHANGED <<cf, cf_err, fsVars, cfFrame>>

CreateFileStep ==
    \/ CreateFileStart
    \/ CreateFileMkdir
    \/ CreateFileWrite
    \/ CreateFileChmod
    \/ CreateFileComplete
    \/ CreateFileExcept

CreateFileIdle ==
    /\ cf = NoFrame
    /\ cf_pc = "idle"
    /\ cf_err = ""

(***************************************************************************)
(* Configuration tables and embedded texts                                 *)
(***************************************************************************)
\* list(AGENT_CONFIG.keys())
AGENT_CONFIG == <<"copilot", "claude", "gemini", "cursor", "openai", "generic">>

\* AGENT_CONFIG[a]["prompt_dir"]
prompt_dir_of(a) ==
    CASE a = "copilot" -> <<".github", "prompts">>
      [] a = "claude" -> <<".claude", "prompts">>
      [] a = "gemini" -> <<".gemini", "prompts">>
      [] a = "cursor" -> <<".cursor", "prompts">>
      [] a = "openai" -> <<".openai", "prompts">>
      [] a = "generic" -> <<"code_review", "prompts">>

\* list(SCRIPT_TYPE_CHOICES.keys())
SCRIPT_TYPE_CHOICES == <<"sh", "ps">>

\* The embedded texts hold no carriage return; each is stood for by its
\* first characters and a line feed.
SCRIPT_CONTENT_SH == <<"#", "!", "\n">>

SCRIPT_CONTENT_PS == <<"<", "#", "\n">>

PROMPT_CONTENT == <<"-", "\n">>

script_dir == <<".code_review", "scripts">>

\* a faulty variant of script_path_of: the two names exchanged
script_path_swapped(flavor) ==
    IF flavor = "sh" THEN script_dir \o <<"git-relatorio.ps1">>
    ELSE script_dir \o <<"git-relatorio.sh">>

script_path_of(flavor) ==
    IF flavor = "sh" THEN script_dir \o <<"git-relatorio.sh">>
    ELSE script_dir \o <<"git-relatorio.ps1">>

prompt_path_of(a) == prompt_dir_of(a) \o <<"code_review.prompt.md">>

(***************************************************************************)
(* init                                                                    *)
(***************************************************************************)
\* "if ai:" and "if script_type:": an absent flag and an empty value are falsy
truthy(v) == v # None /\ v # ""

\* a faulty variant of ai_source: asks whenever stdin is a terminal
ai_source_tty_first(flag, tty) ==
    IF tty THEN "select"
    ELSE IF truthy(flag) THEN (IF flag \in Range(AGENT_CONFIG) THEN "flag" ELSE "invalid")
    ELSE "default"

\* lines 436-447: where selected_ai comes from
ai_source(flag, tty) ==
    IF truthy(flag)
    THEN (IF flag \in Range(AGENT_CONFIG) THEN "flag" ELSE "invalid")
    ELSE (IF ~tty THEN "default" ELSE "select")

\* lines 450-462: where selected_script comes from
script_source(flag, tty) ==
    IF truthy(flag)
    THEN (IF flag \in Range(SCRIPT_TYPE_CHOICES) THEN "flag" ELSE "invalid")
    ELSE (IF ~tty THEN "default" ELSE "select")

\* default_script = "ps" if platform.system() == "Windows" else "sh"
default_script(h) == IF platform_system(h) = "Windows" THEN "ps" ELSE "sh"

inputs == <<ai, script_type, isatty, host>>

\* raise typer.Exit(1)
Exit1 == exit_code' = 1 /\ pc' = "done"

\* a variant that registers the first step before it asks for the assistant
ResolveAi_tracker_first ==
    /\ pc = "resolve_ai" /\ exit_code = -1
    /\ LET src == ai_source(ai, isatty) IN
       \/ /\ src = "invalid"
          /\ Exit1
          /\ UNCHANGED <<selected_ai, sel_log, selectorVars, trackerVars>>
       \/ /\ src = "flag"
          /\ selected_ai' = ai
          /\ pc' = "resolve_script"
          /\ UNCHANGED <<exit_code, sel_log, selectorVars, trackerVars>>
       \/ /\ src = "default"
          /\ selected_ai' = "copilot"
          /\ pc' = "resolve_script"
          /\ UNCHANGED <<exit_code, sel_log, selectorVars, trackerVars>>
       \/ /\ src = "select"
          /\ TrackerCall("add", "dirs", "Criar estrutura", "")
          /\ select_with_arrows(AGENT_CONFIG, "copilot")
          /\ sel_log' = Append(sel_log, "ai")
          /\ pc' = "select_ai"
          /\ UNCHANGED <<exit_code, selected_ai>>
    /\ UNCHANGED <<inputs, selected_script, summary, cfVars, fsVars>>

\* 1. Seleciona IA
ResolveAi ==
    /\ pc = "resolve_ai" /\ exit_code = -1
    /\ LET src == ai_source(ai, isatty) IN
       \/ /\ src = "invalid"
          /\ Exit1
          /\ UNCHANGED <<selected_ai, sel_log, selectorVars>>
       \/ /\ src = "flag"
          /\ selected_ai' = ai
          /\ pc' = "resolve_script"
          /\ UNCHANGED <<exit_code, sel_log, selectorVars>>
       \/ /\ src = "default"
          /\ selected_ai' = "copilot"
          /\ pc' = "resolve_script"
          /\ UNCHANGED <<exit_code, sel_log, selectorVars>>
       \/ /\ src = "select"
          /\ select_with_arrows(AGENT_CONFIG, "copilot")
          /\ sel_log' = Append(sel_log, "ai")
          /\ pc' = "select_ai"
          /\ UNCHANGED <<exit_code, selected_ai>>
    /\ UNCHANGED <<inputs, selected_script, summary, trackerVars, cfVars, fsVars>>

\* selected_ai = select_with_arrows(...)
SelectAiReturn ==
    /\ pc = "select_ai" /\ sel_pc = "returned" /\ exit_code = -1
    /\ selected_ai' = selected_key
    /\ sel_pc' = "idle"
    /\ pc' = "resolve_script"
    /\ UNCHANGED <<option_keys, default_key, selected_index, selected_key, last_key, n_up, n_down>>
    /\ UNCHANGED <<inputs, selected_script, sel_log, summary, exit_code, trackerVars, cfVars, fsVars>>

\* 2. Seleciona Tipo de Script
ResolveScript ==
    /\ pc = "resolve_script" /\ exit_code = -1
    /\ LET src == script_source(script_type, isatty) IN
       \/ /\ src = "invalid"
          /\ Exit1
          /\ UNCHANGED <<selected_script, sel_log, selectorVars>>
       \/ /\ src = "flag"
          /\ selected_script' = script_type
          /\ pc' = "add_dirs"
          /\ UNCHANGED <<exit_code, sel_log, selectorVars>>
       \/ /\ src = "default"
          /\ selected_script' = default_script(host)
          /\ pc' = "add_dirs"
          /\ UNCHANGED <<exit_code, sel_log, selectorVars>>
       \/ /\ src = "select"
          /\ select_with_arrows(SCRIPT_TYPE_CHOICES, default_script(host))
          /\ sel_log' = Append(sel_log, "script")
          /\ pc' = "select_script"
          /\ UNCHANGED <<exit_code, selected_script>>
    /\ UNCHANGED <<inputs, selected_ai, summary, trackerVars, cfVars, fsVars>>

\* selected_script = select_with_arrows(...)
SelectScriptReturn ==
    /\ pc = "select_script" /\ sel_pc = "returned" /\ exit_code = -1
    /\ selected_script' = selected_key
    /\ sel_pc' = "idle"
    /\ pc' = "add_dirs"
    /\ UNCHANGED <<option_keys, default_key, selected_index, selected_key, last_key, n_up, n_down>>
    /\ UNCHANGED <<inputs, selected_ai, sel_log, summary, exit_code, trackerVars, cfVars, fsVars>>

script_label(flavor) == IF flavor = "sh" THEN "Gerar script SH" ELSE "Gerar script PS"

prompt_label(a) == "Gerar Prompt para " \o a

initFrame == <<inputs, selected_ai, selected_script, sel_log, summary, exit_code, selectorVars>>

\* 3. Setup do Tracker: the three tracker.add calls
InitAddDirs ==
    /\ pc = "add_dirs" /\ exit_code = -1
    /\ TrackerCall("add", "dirs", "Criar estrutura", "")
    /\ pc' = "add_script"
    /\ UNCHANGED <<initFrame, cfVars, fsVars>>

InitAddScript ==
    /\ pc = "add_script" /\ exit_code = -1
    /\ TrackerCall("add", "script", script_label(selected_script), "")
    /\ pc' = "add_prompt"
    /\ UNCHANGED <<initFrame, cfVars, fsVars>>

InitAddPrompt ==
    /\ pc = "add_prompt" /\ exit_code = -1
    /\ TrackerCall("add", "prompt", prompt_label(selected_ai), "")
    /\ pc' = "attach"
    /\ UNCHANGED <<initFrame, cfVars, fsVars>>

\* tracker.attach_refresh(lambda: live.update(tracker.render()))
InitAttach ==
    /\ pc = "attach" /\ exit_code = -1
    /\ attach_refresh
    /\ pc' = "start_dirs"
    /\ UNCHANGED <<initFrame, cfVars, fsVars>>

\* Passo 1: tracker.start("dirs")
InitStartDirs ==
    /\ pc = "start_dirs" /\ exit_code = -1
    /\ TrackerCall("start", "dirs", "", "")
    /\ pc' = "mkdir_script_dir"
    /\ UNCHANGED <<initFrame, cfVars, fsVars>>

InitMkdir(at, d, next) ==
    /\ pc = at /\ exit_code = -1
    /\ \E r \in mkdir(dirs, files, d) :
         /\ dirs' = r.dirs
         /\ io_log' = Append(io_log, IoEntry("mkdir", d, r.ok))
         /\ cf_err' = r.err
         /\ pc' = IF r.ok THEN next ELSE "dirs_except"
    /\ UNCHANGED <<files, cf, cf_pc, initFrame, trackerVars>>

\* script_dir.mkdir(parents=True, exist_ok=True)
InitMkdirScriptDir == InitMkdir("mkdir_script_dir", script_dir, "mkdir_prompt_dir")

\* prompt_dir.mkdir(parents=True, exist_ok=True)
InitMkdirPromptDir == InitMkdir("mkdir_prompt_dir", prompt_dir_of(selected_ai), "complete_dirs")

\* tracker.complete("dirs", "pronto")
InitCompleteDirs ==
    /\ pc = "complete_dirs" /\ exit_code = -1
    /\ TrackerCall("complete", "dirs", "", "pronto")
    /\ pc' = "script"
    /\ UNCHANGED <<initFrame, cfVars, fsVars>>

\* the exit status of a process whose command function returns
ReturnStatus == 0

\* the exit status of a process ended by an exception that nothing catches
UncaughtStatus == 1

\* a faulty variant of InitDirsExcept: init goes on to the script
InitDirsExcept_continues ==
    /\ pc = "dirs_except" /\ exit_code = -1
    /\ TrackerCall("error", "dirs", "", cf_err)
    /\ pc' = "script"
    /\ UNCHANGED <<initFrame, cfVars, fsVars>>

\* except Exception as e: tracker.error("dirs", str(e)); return
InitDirsExcept ==
    /\ pc = "dirs_except" /\ exit_code = -1
    /\ TrackerCall("error", "dirs", "", cf_err)
    /\ pc' = "done"
    /\ exit_code' = ReturnStatus
    /\ UNCHANGED <<inputs, selected_ai, selected_script, sel_log, summary, selectorVars, cfVars, fsVars>>

script_content(flavor) == IF flavor = "sh" THEN SCRIPT_CONTENT_SH ELSE SCRIPT_CONTENT_PS

\* Passo 2: create_file(script_path, content, tracker, "script", make_executable=...)
InitScript ==
    /\ pc = "script" /\ exit_code = -1
    /\ create_file(script_path_of(selected_script), script_content(selected_script),
                   "script", selected_script = "sh")
    /\ pc' = "script_wait"
    /\ UNCHANGED <<initFrame, trackerVars, fsVars>>

\* Passo 3: create_file(prompt_path, PROMPT_CONTENT, tracker, "prompt")
InitPrompt ==
    /\ pc = "script_wait" /\ cf_pc = "returned" /\ exit_code = -1
    /\ create_file(prompt_path_of(selected_ai), PROMPT_CONTENT, "prompt", FALSE)
    /\ pc' = "prompt_wait"
    /\ UNCHANGED <<initFrame, trackerVars, fsVars>>

\* a variant that removes what the run wrote before it ends
InitRaised_rollback ==
    /\ pc \in {"script_wait", "prompt_wait"} /\ cf_pc = "raised" /\ exit_code = -1
    /\ pc' = "done"
    /\ exit_code' = 1
    /\ files' = [p \in DOMAIN files \ {script_path_of(selected_script)} |-> files[p]]
    /\ UNCHANGED <<inputs, selected_ai, selected_script, sel_log, summary, selectorVars>>
    /\ UNCHANGED <<trackerVars, cfVars, dirs, io_log>>

\* the exception create_file raised leaves init and ends the process
InitRaised ==
    /\ pc \in {"script_wait", "prompt_wait"} /\ cf_pc = "raised" /\ exit_code = -1
    /\ pc' = "done"
    /\ exit_code' = UncaughtStatus
    /\ UNCHANGED <<inputs, selected_ai, selected_script, sel_log, summary, selectorVars>>
    /\ UNCHANGED <<trackerVars, cfVars, fsVars>>

\* Sumario Final, then init returns
InitSummary ==
    /\ pc = "prompt_wait" /\ cf_pc = "returned" /\ exit_code = -1
    /\ summary' = TRUE
    /\ pc' = "done"
    /\ exit_code' = ReturnStatus
    /\ UNCHANGED <<inputs, selected_ai, selected_script, sel_log, selectorVars>>
    /\ UNCHANGED <<trackerVars, cfVars, fsVars>>

\* create_file runs only while init waits for it
InitCreateFile ==
    /\ pc \in {"script_wait", "prompt_wait"} /\ exit_code = -1
    /\ CreateFileStep

\* the selector runs only while init waits for it
InitSelect ==
    /\ pc \in {"select_ai", "select_script"}
    /\ SelectLoop

\* The values --ai and --script can carry
AiFlags == {None, "", "not-a-real-agent"} \cup Range(AGENT_CONFIG)

ScriptFlags == {None, "", "bash"} \cup Range(SCRIPT_TYPE_CHOICES)

NoFiles == [p \in {} |-> [content |-> <<>>, mode |-> 0]]

\* The project directory before the run: empty; holding the output of an
\* earlier run; holding a file where the script directory should be.
InitialFs ==
    {[dirs |-> {}, files |-> NoFiles],
     [dirs |-> Prefixes(script_dir) \cup Prefixes(prompt_dir_of("copilot")),
      files |-> PutFile(NoFiles, script_path_of("sh"), <<"o", "l", "d", "\n">>, 384)],
     [dirs |-> {}, files |-> PutFile(NoFiles, <<".code_review">>, <<>>, 420)]}

Init ==
    /\ TrackerInit
    /\ SelectorIdle
    /\ CreateFileIdle
    /\ \E f \in InitialFs : dirs = f.dirs /\ files = f.files
    /\ io_log = <<>>
    /\ pc = "resolve_ai"
    /\ ai \in AiFlags
    /\ script_type \in ScriptFlags
    /\ isatty \in BOOLEAN
    /\ host \in Hosts
    /\ selected_ai = None
    /\ selected_script = None
    /\ sel_log = <<>>
    /\ summary = FALSE
    /\ exit_code = -1

Next ==
    \/ ResolveAi
    \/ InitSelect
    \/ SelectAiReturn
    \/ ResolveScript
    \/ SelectScriptReturn
    \/ InitAddDirs
    \/ InitAddScript
    \/ InitAddPrompt
    \/ InitAttach
    \/ InitStartDirs
    \/ InitMkdirScriptDir
    \/ InitMkdirPromptDir
    \/ InitCompleteDirs
    \/ InitDirsExcept
    \/ InitScript
    \/ InitCreateFile
    \/ InitPrompt
    \/ InitRaised
    \/ InitSummary

Spec == Init /\ [][Next]_vars

(***************************************************************************)
(* The parts on their own                                                  *)
(***************************************************************************)
InitIdle ==
    /\ pc = "idle"
    /\ ai = None
    /\ script_type = None
    /\ isatty = TRUE
    /\ selected_ai = None
    /\ selected_script = None
    /\ sel_log = <<>>
    /\ summary = FALSE
    /\ exit_code = -1

FsEmpty ==
    /\ dirs = {}
    /\ files = NoFiles
    /\ io_log = <<>>

\* --- any sequence of calls on one StepTracker ---
trackerFrame == <<selectorVars, cfVars, fsVars, initVars>>

TrackerAdd ==
    /\ \E k \in Keys, l \in Labels : TrackerCall("add", k, l, "")
    /\ UNCHANGED trackerFrame

TrackerStart ==
    /\ \E k \in Keys, d \in Details : TrackerCall("start", k, "", d)
    /\ UNCHANGED trackerFrame

TrackerComplete ==
    /\ \E k \in Keys, d \in Details : TrackerCall("complete", k, "", d)
    /\ UNCHANGED trackerFrame

TrackerError ==
    /\ \E k \in Keys, d \in Details : TrackerCall("error", k, "", d)
    /\ UNCHANGED trackerFrame

TrackerAttach ==
    /\ attach_refresh
    /\ UNCHANGED trackerFrame

InitTracker ==
    /\ TrackerInit
    /\ SelectorIdle
    /\ CreateFileIdle
    /\ FsEmpty
    /\ InitIdle
    /\ host = "Linux"

NextTracker ==
    \/ TrackerAdd
    \/ TrackerStart
    \/ TrackerComplete
    \/ TrackerError
    \/ TrackerAttach

SpecTracker == InitTracker /\ [][NextTracker]_vars

\* --- one call of select_with_arrows ---
OptionPool == {"copilot", "claude", "gemini", ""}

\* the key lists of the non-empty dicts over the pool: no key twice
OptionSets ==
    {o \in UNION {[1..n -> OptionPool] : n \in 1..MaxOptions} :
        \A i, j \in 1..Len(o) : i # j => o[i] # o[j]}

DefaultKeys == OptionPool \cup {None, "cursor"}

InitSelector ==
    /\ TrackerInit
    /\ CreateFileIdle
    /\ FsEmpty
    /\ InitIdle
    /\ host = "Linux"
    /\ option_keys \in OptionSets
    /\ default_key \in DefaultKeys
    /\ selected_index = initial_index(option_keys, default_key)
    /\ selected_key = None
    /\ last_key = None
    /\ n_up = 0
    /\ n_down = 0
    /\ sel_pc = "loop"

NextSelector == SelectLoop

SpecSelector == InitSelector /\ [][NextSelector]_vars

\* --- one call of create_file ---
Chars == {"a", "\r", "\n"}

Contents == UNION {[1..n -> Chars] : n \in 0..MaxContent}

CfPaths == {<<"out.sh">>, <<"scripts", "out.sh">>}

\* 0o644, 0o600, 0o755, 0o000
ExistingModes == {420, 384, 493, 0}

\* What create_file can find: nothing; the parent directory; the file with
\* any mode; a directory, or a file, where it should not be.
CfInitialFs(path) ==
    {[dirs |-> {}, files |-> NoFiles],
     [dirs |-> Prefixes(Parent(path)), files |-> NoFiles],
     [dirs |-> Prefixes(path), files |-> NoFiles]}
    \cup
    {[dirs |-> Prefixes(Parent(path)), files |-> PutFile(NoFiles, path, <<"o">>, m)] :
        m \in ExistingModes}
    \cup
    {[dirs |-> {}, files |-> PutFile(NoFiles, Parent(path), <<>>, 420)] :
        x \in IF Parent(path) = <<>> THEN {} ELSE {1}}

\* The tracker create_file is given: empty, or holding the step already
CfInitialSteps(key) ==
    {<<>>,
     <<NewStep(key, "Gerar", "pending", "")>>,
     <<NewStep("dirs", "Criar", "done", "pronto"), NewStep(key, "Gerar", "pending", "")>>,
     <<NewStep(key, "Gerar", "done", "criado"), NewStep("dirs", "Criar", "error", "x")>>}

InitCreateFileCall ==
    /\ SelectorIdle
    /\ InitIdle
    /\ host \in Hosts
    /\ steps \in CfInitialSteps("script")
    /\ refresh_cb \in {"none", "set"}
    /\ cb_seen = <<>>
    /\ call = NoCall
    /\ pre = <<>>
    /\ \E path \in CfPaths :
         /\ \E content \in Contents, x \in BOOLEAN :
              cf = [path |-> path, content |-> content, step_key |-> "script",
                    make_executable |-> x]
         /\ \E f \in CfInitialFs(path) : dirs = f.dirs /\ files = f.files
    /\ cf_pc = "start"
    /\ cf_err = ""
    /\ io_log = <<>>

NextCreateFile ==
    \/ CreateFileStart
    \/ CreateFileMkdir
    \/ CreateFileWrite
    \/ CreateFileChmod
    \/ CreateFileComplete
    \/ CreateFileExcept

SpecCreateFile == InitCreateFileCall /\ [][NextCreateFile]_vars

(***************************************************************************)
(* Properties                                                              *)
(***************************************************************************)
StepOf(s, key) == s[FirstIndex(s, key)]

AllOk(log) == \A i \in 1..Len(log) : log[i].ok

\* the step of the state a file-system call of init belongs to: the first
\* two calls are DirectorySetup's, the later ones are create_file's
StateOfCall(i) ==
    IF i <= 2 THEN "dirs"
    ELSE IF io_log[i].path \in {script_dir, script_path_of(selected_script)} THEN "script"
    ELSE "prompt"

ThreeStepsDone ==
    \A k \in {"dirs", "script", "prompt"} : HasKey(steps, k) /\ StepOf(steps, k).status = "done"

\* C1: when the process has ended after a file-system call of DirectorySetup,
\* ScriptGeneration or PromptGeneration failed, its exit status is not 0 and
\* the step of that state shows error; exit status 0 only with all three
\* steps done.
C1_FailureIsFatal ==
    exit_code # -1 =>
        /\ \A i \in 1..Len(io_log) :
              ~io_log[i].ok =>
                  /\ exit_code # 0
                  /\ HasKey(steps, StateOfCall(i))
                  /\ StepOf(steps, StateOfCall(i)).status = "error"
        /\ exit_code = 0 => ThreeStepsDone

\* a flag value that was given and is no key of its table
InvalidAi == ai # None /\ ai \notin Range(AGENT_CONFIG)

InvalidScript == script_type # None /\ script_type \notin Range(SCRIPT_TYPE_CHOICES)

\* C2: a run given an --ai value that is no key of AGENT_CONFIG, or a
\* --script value that is neither sh nor ps, makes no file-system call at any
\* point and ends with status 1 only.
C2_InvalidChoiceExitsBeforeIO ==
    (InvalidAi \/ InvalidScript) =>
        /\ io_log = <<>>
        /\ exit_code \in {-1, 1}
        /\ pc = "done" => exit_code = 1

\* C3 as stated: with a valid assistant given by --ai, select_with_arrows is
\* not called at any point of the run.
C3_NoSelectorAtAll ==
    ai \in Range(AGENT_CONFIG) => sel_log = <<>>

\* C3 amended: with a valid assistant given by --ai, select_with_arrows is
\* never called for the assistant; it is called at most once, for the script
\* flavor, and only when --script is absent or empty and stdin is a terminal.
C3_NoSelectorForAssistant ==
    ai \in Range(AGENT_CONFIG) =>
        /\ sel_log \in {<<>>, <<"script">>}
        /\ sel_log = <<"script">> => ~truthy(script_type) /\ isatty
        /\ selected_ai \in {None, ai}

C3_Witness ==
    /\ ai \in Range(AGENT_CONFIG)
    /\ isatty
    /\ sel_log = <<"script">>
    /\ selected_ai = ai
    /\ summary

InFlight == {"mkdir", "write", "chmod", "complete", "complete_x", "except"}

Last(log) == log[Len(log)]

ChmodDone(log) == \E i \in 1..Len(log) : log[i].op = "chmod" /\ log[i].ok

\* C4: a call of create_file has the step running from its first statement
\* until it ends; it ends either returned, every file-system call having
\* succeeded, with the step done and detail 'criado & chmod +x' when the
\* execute bits were added and 'criado' otherwise, or raised, its last
\* file-system call having failed, with the step error and the failure's
\* description as detail.
C4_CreateFileOutcome ==
    /\ cf_pc \in InFlight \cup {"returned", "raised"} => HasKey(steps, cf.step_key)
    /\ cf_pc \in InFlight => StepOf(steps, cf.step_key).status = "running"
    /\ cf_pc = "returned" =>
          /\ AllOk(io_log)
          /\ StepOf(steps, cf.step_key).status = "done"
          /\ StepOf(steps, cf.step_key).detail =
                IF ChmodDone(io_log) THEN "criado & chmod +x" ELSE "criado"
    /\ cf_pc = "raised" =>
          /\ io_log # <<>> /\ ~Last(io_log).ok
          /\ cf_err # ""
          /\ StepOf(steps, cf.step_key).status = "error"
          /\ StepOf(steps, cf.step_key).detail = cf_err

\* create_file raised at its chmod, on a step that was done before the call
C4_Witness ==
    /\ cf_pc = "raised"
    /\ Last(io_log).op = "chmod"
    /\ Len(steps) = 2
    /\ StepOf(steps, cf.step_key).detail = "[Errno 1] Operation not permitted"

WriteOk(log, path) == \E i \in 1..Len(log) : log[i] = IoEntry("write", path, TRUE)

WriteFailed(log, path) == \E i \in 1..Len(log) : log[i] = IoEntry("write", path, FALSE)

Attempts(log, path) == Cardinality({i \in 1..Len(log) : log[i].op = "write" /\ log[i].path = path})

\* C5: once the script was written and the write of the prompt has failed,
\* the script file with its content and the directories of DirectorySetup
\* stay on disk to the end of the process, the failed write was the only
\* write of the prompt and the last file-system call of the run.
C5_NoRollbackNoRetry ==
    (/\ selected_script # None /\ selected_ai # None
     /\ WriteOk(io_log, script_path_of(selected_script))
     /\ WriteFailed(io_log, prompt_path_of(selected_ai))) =>
        /\ script_path_of(selected_script) \in DOMAIN files
        /\ files[script_path_of(selected_script)].content = script_content(selected_script)
        /\ Prefixes(script_dir) \subseteq dirs
        /\ Prefixes(prompt_dir_of(selected_ai)) \subseteq dirs
        /\ Attempts(io_log, prompt_path_of(selected_ai)) = 1
        /\ Last(io_log) = IoEntry("write", prompt_path_of(selected_ai), FALSE)

C5_Witness ==
    /\ exit_code = 1
    /\ WriteOk(io_log, script_path_of(selected_script))
    /\ WriteFailed(io_log, prompt_path_of(selected_ai))
    /\ script_path_of(selected_script) \in DOMAIN files

Cancelling == {"escape", KeyboardInterrupt}

\* C6: in a call of select_with_arrows on any option set, from any highlighted
\* index, a read that gives escape and a read that raises KeyboardInterrupt
\* both end the program with exit status 1 and no key returned; nothing else
\* ends the program.
C6_CancelExits ==
    /\ last_key \in Cancelling =>
          /\ sel_pc = "exit"
          /\ exit_code = 1
          /\ selected_key = None
    /\ sel_pc = "exit" => last_key \in Cancelling
    /\ exit_code # -1 => sel_pc = "exit"

C6_Witness ==
    /\ last_key = KeyboardInterrupt
    /\ sel_pc = "exit"
    /\ exit_code = 1
    /\ selected_index = 2

\* C7: while select_with_arrows runs in init, and when it has returned or
\* has cancelled the run, no file-system call has been made and no step is
\* registered; a cancelled run ends with none made.
C7_SelectorBeforeIO ==
    /\ sel_pc \in {"loop", "returned", "exit"} => io_log = <<>> /\ steps = <<>>
    /\ io_log # <<>> \/ steps # <<>> => pc \notin {"resolve_ai", "select_ai", "resolve_script", "select_script"}

\* the run was cancelled in the second selection
C7_Witness ==
    /\ sel_pc = "exit"
    /\ sel_log = <<"ai", "script">>
    /\ exit_code = 1
    /\ io_log = <<>>

IndexInRange == selected_index \in 0..(Len(option_keys) - 1)

\* C8: the highlighted index is within [0, n-1] at the start of the loop
\* and after every key; up moves it to the index before, from 0 to n-1; down
\* moves it to the index after, from n-1 to 0.
C8_IndexWraps ==
    /\ IndexInRange
    /\ [][/\ IndexInRange'
          /\ last_key' = "up" =>
                selected_index' = IF selected_index = 0 THEN Len(option_keys) - 1
                                  ELSE selected_index - 1
          /\ last_key' = "down" =>
                selected_index' = IF selected_index = Len(option_keys) - 1 THEN 0
                                  ELSE selected_index + 1]_vars

\* up has moved the index from 0 to the last of three options
C8_Witness ==
    /\ last_key = "up"
    /\ Len(option_keys) = 3
    /\ selected_index = 2
    /\ initial_index(option_keys, default_key) = 0

CountKey(s, key) == Cardinality({i \in 1..Len(s) : s[i].key = key})

\* C9: after add(key, label), exactly one step has the key; on a tracker
\* that held the key the step sequence is what it was; on one that did not,
\* it is what it was with a pending step of empty detail appended.
C9_AddIdempotent ==
    call.op = "add" =>
        /\ CountKey(steps, call.key) = 1
        /\ HasKey(pre, call.key) => steps = pre
        /\ ~HasKey(pre, call.key) =>
              /\ SubSeq(steps, 1, Len(pre)) = pre
              /\ Len(steps) = Len(pre) + 1
              /\ Last(steps) = NewStep(call.key, call.label, "pending", "")

\* add on a key whose step is done, behind another step
C9_Witness ==
    /\ call.op = "add"
    /\ HasKey(pre, call.key)
    /\ StepOf(pre, call.key).status = "done"
    /\ StepOf(pre, call.key).detail # ""
    /\ Len(steps) = 2

StatusFor(op) ==
    CASE op = "start" -> "running"
      [] op = "complete" -> "done"
      [] op = "error" -> "error"

\* C10: start, complete or error on a key no step has appends one step with
\* that key, the status of the call and the detail given, and leaves the
\* steps before it as they were; on a key a step has, the number of steps
\* stays.
C10_UpdateAppendsMissing ==
    call.op \in {"start", "complete", "error"} =>
        IF HasKey(pre, call.key)
        THEN Len(steps) = Len(pre)
        ELSE /\ Len(steps) = Len(pre) + 1
             /\ SubSeq(steps, 1, Len(pre)) = pre
             /\ Last(steps).key = call.key
             /\ Last(steps).status = StatusFor(call.op)
             /\ Last(steps).detail = call.detail
             /\ CountKey(steps, call.key) = 1

\* error with a detail on a key that was not registered, after another step
C10_Witness ==
    /\ call.op = "error"
    /\ ~HasKey(pre, call.key)
    /\ Len(pre) = 1
    /\ call.detail # ""
    /\ Last(steps).status = "error"

HasCR(text) == \E i \in 1..Len(text) : text[i] = "\r"

\* C11: the file a call of create_file has written and returned from holds
\* no carriage return, whatever the content given.
C11_NoCarriageReturn ==
    cf_pc = "returned" => ~HasCR(files[cf.path].content)

\* bit b of the nine permission bits of mode m
Bit(m, b) == (m \div (2 ^ b)) % 2 = 1

\* execute for other, group and owner
ExecBitPositions == {0, 3, 6}

FileModeKept == cf.path \in DOMAIN files /\ cf.path \in DOMAIN files' =>
                    files'[cf.path].mode = files[cf.path].mode

\* C12: in a call of create_file the mode of an existing target changes in
\* one step only, the chmod, which sets the three execute bits and leaves
\* every other bit as it was; that step is taken exactly when make_executable
\* is true and os.name is not 'nt', after the write, so a call that returns
\* with make_executable false or on a non-POSIX host has changed no bit.
C12_ChmodAddsExecuteBits ==
    /\ cf_pc \in {"chmod", "complete_x"} => cf.make_executable /\ os_name(host) # "nt"
    /\ cf_pc = "complete" => ~(cf.make_executable /\ os_name(host) # "nt")
    /\ cf_pc = "complete_x" => \A b \in ExecBitPositions : Bit(files[cf.path].mode, b)
    /\ [][IF cf_pc = "chmod" /\ cf_pc' = "complete_x"
          THEN \A b \in 0..8 :
                  Bit(files'[cf.path].mode, b) <=>
                      (Bit(files[cf.path].mode, b) \/ b \in ExecBitPositions)
          ELSE FileModeKept]_vars

\* a file that had mode 0o600 leaves the call with mode 0o711
C12_Witness ==
    /\ cf_pc = "returned"
    /\ ChmodDone(io_log)
    /\ files[cf.path].mode = 457

\* C13: in a run with no terminal the selector is never called, and a value,
\* once resolved, is the flag's value when the flag was given, else copilot
\* for the assistant and, for the flavor, ps on Windows and sh elsewhere.
C13_NonInteractiveDefaults ==
    ~isatty =>
        /\ sel_log = <<>>
        /\ selected_ai # None =>
              selected_ai = IF ai = None THEN "copilot" ELSE ai
        /\ selected_script # None =>
              selected_script = IF script_type = None
                                THEN (IF host = "Windows" THEN "ps" ELSE "sh")
                                ELSE script_type

ValidFlags == ai \in Range(AGENT_CONFIG) /\ script_type \in Range(SCRIPT_TYPE_CHOICES)

ScriptFileOf(f) ==
    IF f = "sh" THEN <<".code_review", "scripts", "git-relatorio.sh">>
    ELSE <<".code_review", "scripts", "git-relatorio.ps1">>

PromptFileOf(a) == prompt_dir_of(a) \o <<"code_review.prompt.md">>

WritesOf(log) == {log[i].path : i \in {j \in 1..Len(log) : log[j].op = "write"}}

ChmodsOf(log) == {log[i].path : i \in {j \in 1..Len(log) : log[j].op = "chmod" /\ log[j].ok}}

\* a run with both flags valid: it never stops before it exits, and once it
\* has exited with every file-system call succeeded, it has printed the
\* summary and exited 0 with the three steps done and the two files written
\* at their places; marked says whether the script is to have been chmod-ed
SuccessfulRun(marked) ==
    ValidFlags =>
        /\ exit_code = -1 => ENABLED Next
        /\ (exit_code # -1 /\ AllOk(io_log)) =>
              /\ exit_code = 0
              /\ summary
              /\ ThreeStepsDone
              /\ WritesOf(io_log) = {ScriptFileOf(script_type), PromptFileOf(ai)}
              /\ files[ScriptFileOf(script_type)].content = script_content(script_type)
              /\ files[PromptFileOf(ai)].content = PROMPT_CONTENT
              /\ ai = "copilot" =>
                    PromptFileOf(ai) = <<".github", "prompts", "code_review.prompt.md">>
              /\ ChmodsOf(io_log) = IF marked THEN {ScriptFileOf(script_type)} ELSE {}
              /\ marked => \A b \in ExecBitPositions : Bit(files[ScriptFileOf(script_type)].mode, b)

\* C14 as stated: the script is made executable exactly when the flavor is sh.
C14_SuccessMarksSh == SuccessfulRun(script_type = "sh")

\* C14 amended: the script is made executable exactly when the flavor is sh
\* and the host is not Windows (os.name is not 'nt').
C14_SuccessMarksShOnPosix == SuccessfulRun(script_type = "sh" /\ host # "Windows")

C14_Witness ==
    /\ ValidFlags
    /\ summary
    /\ exit_code = 0
    /\ ai = "claude"
    /\ script_type = "sh"
    /\ host = "Linux"
    /\ ChmodsOf(io_log) = {ScriptFileOf("sh")}

(***************************************************************************)
(* The refresh callback                                                    *)
(***************************************************************************)
\* C15: an exception raised by the attached refresh callback is dropped: the
\* call of add, start, complete or error returns normally and leaves the steps
\* exactly as the same call leaves them when the callback succeeds.
C15_CallbackFaultSwallowed ==
    call.cb_fault =>
        /\ ~call.raised
        /\ steps = TrackerResult(pre, call.op, call.key, call.label, call.detail)
        /\ cb_seen = <<steps>>

C15_Witness ==
    /\ call.cb_fault
    /\ call.op = "complete"
    /\ HasKey(pre, call.key)
    /\ StepOf(pre, call.key).status = "running"
    /\ StepOf(steps, call.key).status = "done"

\* C16 as stated: once a callback is attached, every call of add, start,
\* complete and error invokes it exactly once, after the mutation; before
\* attach_refresh no call invokes a callback.
C16_EveryCallRefreshesOnce ==
    call.op # None => cb_seen = IF call.attached THEN <<steps>> ELSE <<>>

\* C16 amended: once a callback is attached, every call of start, complete
\* and error, and every call of add that registers a new step, invokes it
\* exactly once, after the mutation; an add of a key already present invokes
\* no callback, and before attach_refresh no call invokes a callback.
C16_ChangingCallRefreshesOnce ==
    call.op # None =>
        cb_seen = IF call.attached /\ (call.op # "add" \/ ~HasKey(pre, call.key))
                  THEN <<steps>>
                  ELSE <<>>

C16_Witness ==
    /\ call.attached
    /\ call.op = "add"
    /\ ~HasKey(pre, call.key)
    /\ Len(pre) = 1
    /\ cb_seen = <<steps>>
    /\ Len(steps) = 2

(***************************************************************************)
(* start, complete and error on a step that exists                         *)
(***************************************************************************)
\* C17: start, complete or error on an existing step sets its status; a
\* non-empty detail replaces the stored detail and an empty detail leaves it;
\* the step's key, label and position and every other step are unchanged.
C17_DetailRule ==
    (call.op \in {"start", "complete", "error"} /\ HasKey(pre, call.key)) =>
        LET i == FirstIndex(pre, call.key)
        IN  /\ Len(steps) = Len(pre)
            /\ \A j \in 1..Len(pre) : j # i => steps[j] = pre[j]
            /\ steps[i].key = pre[i].key
            /\ steps[i].label = pre[i].label
            /\ steps[i].status = StatusFor(call.op)
            /\ steps[i].detail = IF call.detail # "" THEN call.detail ELSE pre[i].detail

C17_Witness ==
    /\ call.op = "complete"
    /\ call.detail = ""
    /\ HasKey(pre, call.key)
    /\ StepOf(pre, call.key).detail # ""
    /\ StepOf(pre, call.key).status = "running"
    /\ StepOf(steps, call.key).status = "done"
    /\ StepOf(steps, call.key).detail = StepOf(pre, call.key).detail
    /\ Len(steps) = 2

(***************************************************************************)
(* The step sequence                                                       *)
(***************************************************************************)
\* C18: after any sequence of add, start, complete and error calls the step
\* keys are pairwise distinct, every status is one of pending, running, done
\* and error, and each call keeps every earlier step in its place: the
\* sequence only grows at the end.
C18_StepsGrowOnly ==
    /\ \A i, j \in 1..Len(steps) : i # j => steps[i].key # steps[j].key
    /\ \A i \in 1..Len(steps) : steps[i].status \in Statuses
    /\ Len(pre) <= Len(steps)
    /\ \A i \in 1..Len(pre) : steps[i].key = pre[i].key

C18_Witness ==
    /\ call.op = "start"
    /\ Len(pre) = 1
    /\ pre[1].status = "error"
    /\ Len(steps) = 2
    /\ steps[1] = pre[1]
    /\ steps[2].status = "running"

(***************************************************************************)
(* The order of the steps of init                                          *)
(***************************************************************************)
InitStepKeys == {"dirs", "script", "prompt"}

StatusOf(s, key) == IF HasKey(s, key) THEN StepOf(s, key).status ELSE "absent"

AnyStepError(s) == \E k \in InitStepKeys : StatusOf(s, k) = "error"

StatusMoves ==
    {<<"absent", "pending">>, <<"pending", "running">>,
     <<"running", "done">>, <<"running", "error">>}

\* C19: init is linear with no retries: each of the steps dirs, script and
\* prompt changes status only along pending, running, then done or error, and
\* never after that; a step is running only after the step before it is done,
\* so at most one step is running; once a step is in error no step changes
\* status any more and the summary is not printed.
C19_LinearNoRetry ==
    /\ Cardinality({k \in InitStepKeys : StatusOf(steps, k) = "running"}) <= 1
    /\ StatusOf(steps, "script") \in {"running", "done", "error"} =>
            StatusOf(steps, "dirs") = "done"
    /\ StatusOf(steps, "prompt") \in {"running", "done", "error"} =>
            StatusOf(steps, "script") = "done"
    /\ AnyStepError(steps) => ~summary
    /\ [][/\ \A k \in InitStepKeys :
                StatusOf(steps', k) # StatusOf(steps, k) =>
                    <<StatusOf(steps, k), StatusOf(steps', k)>> \in StatusMoves
          /\ AnyStepError(steps) =>
                /\ \A k \in InitStepKeys : StatusOf(steps', k) = StatusOf(steps, k)
                /\ ~summary']_vars

C19_Witness ==
    /\ StatusOf(steps, "dirs") = "done"
    /\ StatusOf(steps, "script") = "error"
    /\ StatusOf(steps, "prompt") = "pending"
    /\ exit_code = UncaughtStatus
    /\ ~summary

(***************************************************************************)
(* The key select_with_arrows returns                                      *)
(***************************************************************************)
\* the index of default_key when it is given and is one of the options, else 0
StartOfDefault ==
    IF default_key # None /\ default_key \in Range(option_keys)
    THEN IndexOf(option_keys, default_key)
    ELSE 0

Highlighted == (StartOfDefault + n_down - n_up) % Len(option_keys)

\* C20: with no escape or interrupt before the first enter, select_with_arrows
\* returns option_keys[(i0 + d - u) mod n], where i0 is the index of the
\* default key when it is given and present and 0 otherwise, and d and u count
\* the down and up keys read; any other key leaves the highlighted index as
\* it is and does not end the loop; the returned value is one of the keys.
C20_ReturnsHighlighted ==
    /\ sel_pc = "returned" =>
            /\ selected_key = option_keys[Highlighted + 1]
            /\ selected_key \in Range(option_keys)
    /\ last_key \notin {None, "up", "down", "enter", "escape", KeyboardInterrupt} =>
            /\ sel_pc = "loop"
            /\ selected_index = Highlighted

====
